---------------------------- MODULE Spec2Model ----------------------------
(* A model of globus_throttled: the Throttler token-bucket store          *)
(* (src/globus_throttled/throttler.py) as driven by the daemon            *)
(* (src/globus_throttled/daemon.py).                                      *)
(*                                                                        *)
(* Time is counted in whole seconds: time.time() is the value of `clock`, *)
(* which the environment may advance or (clock anomaly) set back between  *)
(* two handler runs.  A handler run (one POST, one cleanup callback) is   *)
(* one step: the daemon runs each to completion on one event loop.  A     *)
(* cleanup pass reads the clock once; the code reads it once per item,    *)
(* all within the same run.  SpecLoop alone takes the handler runs apart  *)
(* into their steps, to show what the event loop's scheduling gives.      *)
EXTENDS Integers, Sequences, FiniteSets, TLC

VARIABLES
    resource_buckets,   \* Throttler._resource_buckets: first key -> second key -> item
    clock,              \* what time.time() returns
    result,             \* outcome of the latest handler run (response, log line)
    nops,               \* number of handler runs so far
    \* history variables, read by the properties only
    before,             \* the store and the time at the start of the latest handler run
    shadow,             \* the store of a Throttler given the same events and no cleanup
    shadow_allow,       \* allow_request of that Throttler for the latest event
    hist,               \* what the run so far contained
    first_burst,        \* the immediate requests that follow TrackedKey's first request
    recovery,           \* the wait and the immediate requests after TrackedKey ran dry
    loop                \* SpecLoop: where each handler run of the IOLoop stands

vars == <<resource_buckets, clock, result, nops, before, shadow, shadow_allow,
          hist, first_burst, recovery, loop>>
ghosts == <<shadow, shadow_allow, hist, first_burst, recovery, loop>>

---------------------------------------------------------------------------
(* Bounds of the model *)

\* clock values are 0 .. MaxTime under Spec, 0 .. MaxKeyTime under the other
\* specifications
MaxTime == 1
MaxKeyTime == 2
\* handler runs explored by the specification Spec
MaxOps == 3
\* immediate requests counted in one burst
MaxBurst == 12

\* requester and resource identifiers
Ids == {"a", "b"}

---------------------------------------------------------------------------
(* Program constants *)

TOKEN_BUCKET_FILL_RATE == 1
TOKEN_BUCKET_MAX == 10
TOKEN_BUCKET_START == TOKEN_BUCKET_MAX

---------------------------------------------------------------------------
(* Python values *)

Max(a, b) == IF a >= b THEN a ELSE b
Min(a, b) == IF a <= b THEN a ELSE b

\* a key that is not in the event dict
NoId == "-"

\* the value of a throttle_params field: not in the dict, an int, or a
\* JSON value that is no int (a string such as "x")
Absent == [kind |-> "absent", val |-> 0]
NonInt == [kind |-> "str", val |-> 0]
IntV(n) == [kind |-> "int", val |-> n]

\* dict operations
EmptyDict == [k \in {} |-> 0]
DictSet(d, k, v) == [x \in (DOMAIN d) \cup {k} |-> IF x = k THEN v ELSE d[x]]
DictPop(d, k) == [x \in (DOMAIN d) \ {k} |-> d[x]]

HasKey(buckets, k) == k[1] \in DOMAIN buckets /\ k[2] \in DOMAIN buckets[k[1]]
Item(buckets, k) == buckets[k[1]][k[2]]

\* all (first key, second key) pairs of a store
KeysOf(buckets) ==
    UNION {{<<k1, k2>> : k2 \in DOMAIN buckets[k1]} : k1 \in DOMAIN buckets}

---------------------------------------------------------------------------
(* Throttler *)

\* mutant of GetItem: a new item starts with no tokens
GetItem_EmptyStart(buckets, resource_id, requester_id, now, params) ==
    LET b1 == IF resource_id \in DOMAIN buckets
              THEN buckets
              ELSE DictSet(buckets, resource_id, EmptyDict)
        bucket_collection == b1[resource_id]
        c1 == IF requester_id \in DOMAIN bucket_collection
              THEN bucket_collection
              ELSE DictSet(bucket_collection, requester_id,
                           [last_access |-> now,
                            num_tokens |-> 0,
                            last_params |-> params])
    IN  DictSet(b1, resource_id, c1)

\* mutant of GetItem: the item is initialized whether or not it is there
GetItem_Reinit(buckets, resource_id, requester_id, now, params) ==
    LET b1 == IF resource_id \in DOMAIN buckets
              THEN buckets
              ELSE DictSet(buckets, resource_id, EmptyDict)
        c1 == DictSet(b1[resource_id], requester_id,
                      [last_access |-> now,
                       num_tokens |-> params.bucket_start,
                       last_params |-> params])
    IN  DictSet(b1, resource_id, c1)

\* _get_item: the store after the lookup-or-create; the item returned is
\* the one at [resource_id][requester_id] of that store
GetItem(buckets, resource_id, requester_id, now, params) ==
    LET b1 == IF resource_id \in DOMAIN buckets
              THEN buckets
              ELSE DictSet(buckets, resource_id, EmptyDict)
        bucket_collection == b1[resource_id]
        c1 == IF requester_id \in DOMAIN bucket_collection
              THEN bucket_collection
              ELSE DictSet(bucket_collection, requester_id,
                           [last_access |-> now,
                            num_tokens |-> params.bucket_start,
                            last_params |-> params])
    IN  DictSet(b1, resource_id, c1)

\* mutant of UpdateItem: the refill is not capped at bucket_max
UpdateItem_NoCap(item, now, params) ==
    LET delta == Max(0, params.fill_rate * (now - item.last_access))
    IN  [last_access |-> now,
         num_tokens |-> item.num_tokens + delta,
         last_params |-> params]

\* mutant of UpdateItem: last_access is not updated
UpdateItem_StaleAccess(item, now, params) ==
    LET delta == Max(0, params.fill_rate * (now - item.last_access))
    IN  [last_access |-> item.last_access,
         num_tokens |-> Min(params.bucket_max, item.num_tokens + delta),
         last_params |-> params]

\* mutant of UpdateItem: no tokens are added
UpdateItem_NoFill(item, now, params) ==
    [last_access |-> now,
     num_tokens |-> Min(params.bucket_max, item.num_tokens),
     last_params |-> params]

\* mutant of UpdateItem: the cap is applied before the tokens are added
UpdateItem_CapFirst(item, now, params) ==
    LET delta == Max(0, params.fill_rate * (now - item.last_access))
    IN  [last_access |-> now,
         num_tokens |-> Min(params.bucket_max, item.num_tokens) + delta,
         last_params |-> params]

\* _update_item: the item after the refill
UpdateItem(item, now, params) ==
    LET last_access == item.last_access
        num_tokens == item.num_tokens
        delta == Max(0, params.fill_rate * (now - last_access))
    IN  [last_access |-> now,
         num_tokens |-> Min(params.bucket_max, num_tokens + delta),
         last_params |-> params]

\* mutant of ConsumeToken: the last token is never handed out
ConsumeToken_KeepOne(buckets, resource_id, requester_id, now, params) ==
    LET b1 == GetItem(buckets, resource_id, requester_id, now, params)
        item == UpdateItem(b1[resource_id][requester_id], now, params)
        new_val == item.num_tokens - 1
        put(it) == DictSet(b1, resource_id, DictSet(b1[resource_id], requester_id, it))
    IN  IF new_val <= 0
        THEN [buckets |-> put(item), ret |-> FALSE]
        ELSE [buckets |-> put([item EXCEPT !.num_tokens = new_val]), ret |-> TRUE]

\* mutant of ConsumeToken: the item is looked up under the resource_id twice
ConsumeToken_OneKey(buckets, resource_id, requester_id, now, params) ==
    LET b1 == GetItem(buckets, resource_id, resource_id, now, params)
        item == UpdateItem(b1[resource_id][resource_id], now, params)
        new_val == item.num_tokens - 1
        put(it) == DictSet(b1, resource_id, DictSet(b1[resource_id], resource_id, it))
    IN  IF new_val < 0
        THEN [buckets |-> put(item), ret |-> FALSE]
        ELSE [buckets |-> put([item EXCEPT !.num_tokens = new_val]), ret |-> TRUE]

\* mutant of ConsumeToken: a denied request leaves the item as _get_item found it
ConsumeToken_DeniedUntouched(buckets, resource_id, requester_id, now, params) ==
    LET b1 == GetItem(buckets, resource_id, requester_id, now, params)
        item == UpdateItem(b1[resource_id][requester_id], now, params)
        new_val == item.num_tokens - 1
        put(it) == DictSet(b1, resource_id, DictSet(b1[resource_id], requester_id, it))
    IN  IF new_val < 0
        THEN [buckets |-> b1, ret |-> FALSE]
        ELSE [buckets |-> put([item EXCEPT !.num_tokens = new_val]), ret |-> TRUE]

\* _consume_token: the store after get, refill and consume, and the value returned
ConsumeToken(buckets, resource_id, requester_id, now, params) ==
    LET b1 == GetItem(buckets, resource_id, requester_id, now, params)
        item == UpdateItem(b1[resource_id][requester_id], now, params)
        new_val == item.num_tokens - 1
        put(it) == DictSet(b1, resource_id, DictSet(b1[resource_id], requester_id, it))
    IN  IF new_val < 0
        THEN [buckets |-> put(item), ret |-> FALSE]
        ELSE [buckets |-> put([item EXCEPT !.num_tokens = new_val]), ret |-> TRUE]

NoError == "none"

\* mutant of IsInt: any JSON value passes
IsInt_Any(field) == TRUE

\* isinstance(params.get(x, 0), int)
IsInt(field) == field.kind \in {"absent", "int"}

\* _validate_request: the reason of the HTTPError(400) raised, or NoError
ValidateRequest(request) ==
    IF request.requester_id = NoId THEN "requester_id is required"
    ELSE IF request.resource_id = NoId THEN "resource_id is required"
    ELSE IF ~IsInt(request.throttle_params.fill_rate)
         THEN "throttle_params.fill_rate must be an int"
    ELSE IF ~IsInt(request.throttle_params.bucket_max)
         THEN "throttle_params.bucket_max must be an int"
    ELSE IF ~IsInt(request.throttle_params.bucket_start)
         THEN "throttle_params.bucket_start must be an int"
    ELSE NoError

\* throttle_params.get(name, default)
ParamGet(field, default) == IF field.kind = "absent" THEN default ELSE field.val

\* handle_event: evaluated_params
EvaluatedParams(throttle_params) ==
    [fill_rate |-> ParamGet(throttle_params.fill_rate, TOKEN_BUCKET_FILL_RATE),
     bucket_max |-> ParamGet(throttle_params.bucket_max, TOKEN_BUCKET_MAX),
     bucket_start |-> ParamGet(throttle_params.bucket_start, TOKEN_BUCKET_START)]

NoKeys == {}

\* what a handler run shows: the response of handle_event and the identifiers
\* of its log line, or the 400 it raised, or the log line of a cleanup pass
Response(op, status, reason, requester_id, resource_id, allow, marked) ==
    [op |-> op, status |-> status, reason |-> reason,
     requester_id |-> requester_id, resource_id |-> resource_id,
     allow |-> allow, marked |-> marked]

\* handle_event, on the store `buckets` at time `now`: the store and the response
HandleEventOn(buckets, event, now) ==
    LET err == ValidateRequest(event) IN
    IF err # NoError
    THEN [buckets |-> buckets,
          response |-> Response("handle_event", 400, err, NoId, NoId, FALSE, NoKeys)]
    ELSE LET requester_id == event.requester_id
             resource_id == event.resource_id
             evaluated_params == EvaluatedParams(event.throttle_params)
             \* the call passes (requester_id, resource_id) for the
             \* parameters (resource_id, requester_id) of _consume_token
             r == ConsumeToken(buckets, requester_id, resource_id, now,
                               evaluated_params)
         IN  [buckets |-> r.buckets,
              response |-> Response("handle_event", 200, NoError, requester_id,
                                    resource_id, r.ret, NoKeys)]

\* the store keys of the entry that handle_event uses for a pair
PairKey(requester_id, resource_id) == <<requester_id, resource_id>>

\* cleanup, MARK: every item refilled at `now` with its own last_params
MarkPhase(buckets, now) ==
    [k1 \in DOMAIN buckets |->
        [k2 \in DOMAIN buckets[k1] |->
            UpdateItem(buckets[k1][k2], now, buckets[k1][k2].last_params)]]

\* mutant of Marked: an item exactly at capacity is not marked
Marked_Strict(buckets) ==
    {k \in KeysOf(buckets) :
        buckets[k[1]][k[2]].num_tokens > buckets[k[1]][k[2]].last_params.bucket_max}

\* mutant of Marked: an item one token short of capacity is marked too
Marked_NearFull(buckets) ==
    {k \in KeysOf(buckets) :
        buckets[k[1]][k[2]].num_tokens + 1 >= buckets[k[1]][k[2]].last_params.bucket_max}

\* cleanup, MARK: the keys whose refilled item is at capacity
Marked(buckets) ==
    {k \in KeysOf(buckets) :
        buckets[k[1]][k[2]].num_tokens >= buckets[k[1]][k[2]].last_params.bucket_max}

\* mutant of Sweep: a group left empty is not pruned
RECURSIVE Sweep_NoPrune(_, _)
Sweep_NoPrune(buckets, order) ==
    IF order = <<>> THEN [buckets |-> buckets, raised |-> FALSE]
    ELSE LET resource_id == Head(order)[1]
             requester_id == Head(order)[2]
         IN  IF resource_id \notin DOMAIN buckets
             THEN [buckets |-> buckets, raised |-> TRUE]
             ELSE Sweep_NoPrune(DictSet(buckets, resource_id,
                                        DictPop(buckets[resource_id], requester_id)),
                                Tail(order))

\* mutant of Sweep: the group is pruned with the first of its items
RECURSIVE Sweep_PruneEarly(_, _)
Sweep_PruneEarly(buckets, order) ==
    IF order = <<>> THEN [buckets |-> buckets, raised |-> FALSE]
    ELSE LET resource_id == Head(order)[1]
         IN  IF resource_id \notin DOMAIN buckets
             THEN [buckets |-> buckets, raised |-> TRUE]
             ELSE Sweep_PruneEarly(DictPop(buckets, resource_id), Tail(order))

\* cleanup, SWEEP, over the marked keys in the order the set yields them;
\* raised is TRUE when self._resource_buckets[resource_id] raises KeyError
RECURSIVE Sweep(_, _)
Sweep(buckets, order) ==
    IF order = <<>> THEN [buckets |-> buckets, raised |-> FALSE]
    ELSE LET resource_id == Head(order)[1]
             requester_id == Head(order)[2]
         IN  IF resource_id \notin DOMAIN buckets
             THEN [buckets |-> buckets, raised |-> TRUE]
             ELSE LET popped == DictSet(buckets, resource_id,
                                        DictPop(buckets[resource_id], requester_id))
                      pruned == IF DOMAIN popped[resource_id] = {}
                                THEN DictPop(popped, resource_id)
                                ELSE popped
                  IN  Sweep(pruned, Tail(order))

\* the orders in which a set of keys can be iterated
Orders(S) ==
    {o \in [1 .. Cardinality(S) -> S] : \A i, j \in DOMAIN o : i # j => o[i] # o[j]}

---------------------------------------------------------------------------
(* History variables *)

\* the pair the burst histories follow: requester "a", resource "b"
TrackedKey == <<"a", "b">>


NoParams == [fill_rate |-> 0, bucket_max |-> 0, bucket_start |-> 0]
NoBurst(phase) == [phase |-> phase, params |-> NoParams, t0 |-> 0, t |-> 0,
                   n |-> 0, allowed |-> 0, cleaned |-> FALSE, evicted |-> FALSE]
Waiting(p, now) == [phase |-> "waiting", params |-> p, t0 |-> now, t |-> now,
                    n |-> 0, allowed |-> 0, cleaned |-> FALSE, evicted |-> FALSE]
Count(b) == IF b THEN 1 ELSE 0

\* hist after a valid event for key k with evaluated params p
HistAfterEvent(k, p) ==
    [hist EXCEPT
        !.negative = @ \/ p.fill_rate < 0 \/ p.bucket_max < 0 \/ p.bucket_start < 0,
        !.varied = @ \/ (HasKey(shadow, k) /\ shadow[k[1]][k[2]].last_params # p),
        !.low_start = @ \/ p.bucket_start < p.bucket_max]

\* first_burst after a valid event for TrackedKey
FirstBurstAfterEvent(p, allow) ==
    IF first_burst.phase = "unseen"
    THEN [phase |-> "burst", params |-> p, t0 |-> clock, t |-> clock,
          n |-> 1, allowed |-> Count(allow), cleaned |-> FALSE,
          evicted |-> FALSE]
    ELSE IF /\ first_burst.phase = "burst"
            /\ first_burst.params = p
            /\ first_burst.n < MaxBurst
         THEN [first_burst EXCEPT !.n = @ + 1, !.allowed = @ + Count(allow)]
         ELSE NoBurst("over")

\* recovery after a valid event for TrackedKey that left `item` in the store
RecoveryAfterEvent(p, allow, item) ==
    IF recovery.phase = "waiting" /\ recovery.params = p
    THEN [recovery EXCEPT !.phase = "burst", !.t = clock, !.n = 1,
                          !.allowed = Count(allow)]
    ELSE IF /\ recovery.phase = "burst"
            /\ recovery.params = p
            /\ recovery.n < MaxBurst
         THEN [recovery EXCEPT !.n = @ + 1, !.allowed = @ + Count(allow)]
         ELSE IF item.num_tokens = 0
              THEN Waiting(p, clock)
              ELSE NoBurst("none")

\* recovery when time passes
RecoveryAfterTick ==
    IF recovery.phase = "waiting" THEN recovery
    ELSE IF /\ recovery.phase = "burst"
            /\ HasKey(resource_buckets, TrackedKey)
            /\ resource_buckets[TrackedKey[1]][TrackedKey[2]].num_tokens = 0
         THEN Waiting(recovery.params, clock)
         ELSE NoBurst("none")

\* recovery after a cleanup pass that marked the keys `marked`
RecoveryAfterCleanup(marked) ==
    IF recovery.phase = "waiting"
    THEN [recovery EXCEPT !.cleaned = TRUE,
                          !.evicted = @ \/ TrackedKey \in marked]
    ELSE recovery

\* the number of requests allowed at each clock value: none
NoneAllowed == [t \in 0 .. MaxKeyTime |-> 0]

\* hist after an event under SpecRate: the params of the requests for
\* TrackedKey while they are all the same, how many requests were allowed
\* at each clock value, and the time of the latest request and the num_tokens
\* it left
RateAfterEvent(event) ==
    LET r == HandleEventOn(resource_buckets, event, clock)
        p == EvaluatedParams(event.throttle_params)
        same == hist.same /\ (hist.seen => hist.params = p)
    IN  hist' = IF r.response.status # 200 THEN hist
                ELSE [hist EXCEPT
                        !.seen = TRUE,
                        !.req_at = clock,
                        !.req_left = Item(r.buckets, TrackedKey).num_tokens,
                        !.same = same,
                        !.params = IF same THEN p ELSE NoParams,
                        !.allowed =
                            IF same
                            THEN [@ EXCEPT ![clock] = @ + Count(r.response.allow)]
                            ELSE NoneAllowed]

\* the shadow Throttler and hist after an event
ShadowAfterEvent(event) ==
    LET sh == HandleEventOn(shadow, event, clock)
        k == <<event.requester_id, event.resource_id>>
        p == EvaluatedParams(event.throttle_params)
    IN  /\ shadow' = sh.buckets
        /\ shadow_allow' = sh.response.allow
        /\ hist' = IF sh.response.status = 200 THEN HistAfterEvent(k, p) ELSE hist

\* the bursts after an event
BurstsAfterEvent(event) ==
    LET r == HandleEventOn(resource_buckets, event, clock)
        k == <<event.requester_id, event.resource_id>>
        p == EvaluatedParams(event.throttle_params)
        valid == r.response.status = 200
    IN  /\ first_burst' = IF valid /\ k = TrackedKey
                          THEN FirstBurstAfterEvent(p, r.response.allow)
                          ELSE first_burst
        /\ recovery' = IF valid /\ k = TrackedKey
                       THEN RecoveryAfterEvent(p, r.response.allow,
                                               r.buckets[k[1]][k[2]])
                       ELSE recovery

---------------------------------------------------------------------------
(* The daemon: POST / runs handle_event, the periodic callback runs cleanup *)

Defaults == [fill_rate |-> Absent, bucket_max |-> Absent, bucket_start |-> Absent]
TP(f, m, s) == [fill_rate |-> f, bucket_max |-> m, bucket_start |-> s]
Event(requester_id, resource_id, throttle_params) ==
    [requester_id |-> requester_id, resource_id |-> resource_id,
     throttle_params |-> throttle_params]

\* the events posted under Spec: any two identifiers, or one of them missing,
\* or a field that is no int
ThrottleParams ==
    {Defaults,
     TP(IntV(1), IntV(2), IntV(0)),
     TP(IntV(-1), Absent, IntV(-1))}
Events ==
    [requester_id : Ids, resource_id : Ids, throttle_params : ThrottleParams] \cup
    {Event(NoId, "a", Defaults),
     Event("a", NoId, TP(IntV(1), IntV(2), IntV(0))),
     Event("a", "b", TP(Absent, Absent, NonInt)),
     Event("b", "a", TP(NonInt, IntV(-1), Absent))}

\* the events posted under SpecKey: one pair of identifiers, more throttle_params
KeyThrottleParams ==
    {Defaults,
     TP(IntV(1), IntV(2), IntV(0)),
     TP(IntV(0), IntV(1), IntV(2)),
     TP(IntV(2), IntV(3), Absent),
     TP(IntV(-1), Absent, IntV(-1)),
     TP(Absent, IntV(-1), Absent)}
KeyEvents ==
    {Event(TrackedKey[1], TrackedKey[2], tp) : tp \in KeyThrottleParams} \cup
    {Event(NoId, TrackedKey[2], Defaults),
     Event(TrackedKey[1], NoId, Defaults),
     Event(TrackedKey[1], TrackedKey[2], TP(NonInt, Absent, Absent)),
     Event(TrackedKey[1], TrackedKey[2], TP(Absent, NonInt, Absent)),
     Event(TrackedKey[1], TrackedKey[2], TP(Absent, Absent, NonInt))}

\* the POST handler runs the server may have in progress
Handlers == {1, 2}

NoEvent == Event(NoId, NoId, Defaults)
IdlePost == [pc |-> "idle", event |-> NoEvent, now |-> 0]

\* no handler run has started
LoopInit ==
    [post |-> [h \in Handlers |-> IdlePost],
     cleanup_pc |-> "idle",     \* idle, mark or sweep
     todo |-> {},               \* MARK: the keys the iteration has yet to visit
     marked |-> {},             \* the set `marked`
     unswept |-> {},            \* SWEEP: the marked keys yet to visit
     keys_at_mark |-> {},       \* history: the keys of the store when MARK began
     touched |-> {},            \* history: marked keys a token was consumed from since
     lost |-> FALSE]            \* history: SWEEP removed a key of `touched`

Init ==
    /\ resource_buckets = EmptyDict
    /\ clock = 0
    /\ result = Response("none", 0, NoError, NoId, NoId, FALSE, NoKeys)
    /\ nops = 0
    /\ before = [buckets |-> EmptyDict, now |-> 0]
    /\ shadow = EmptyDict
    /\ shadow_allow = FALSE
    /\ hist = [negative |-> FALSE, varied |-> FALSE, low_start |-> FALSE,
               evicted |-> FALSE, cleaned |-> FALSE, seen |-> FALSE, same |-> TRUE,
               params |-> NoParams, allowed |-> NoneAllowed,
               req_at |-> 0, req_left |-> 0]
    /\ first_burst = NoBurst("unseen")
    /\ recovery = NoBurst("none")
    /\ loop = LoopInit

\* RootTornadoHandler.post
HandleEvent(event) ==
    LET r == HandleEventOn(resource_buckets, event, clock) IN
    /\ UNCHANGED clock
    /\ result' = r.response
    /\ resource_buckets' = r.buckets

\* Throttler.cleanup, run by the PeriodicCallback
Cleanup ==
    /\ IF DOMAIN resource_buckets = {}
       THEN /\ result' = Response("cleanup", 0, "skip", NoId, NoId, FALSE, NoKeys)
            /\ UNCHANGED resource_buckets
       ELSE LET refilled == MarkPhase(resource_buckets, clock)
                marked == Marked(refilled)
            IN  \E order \in Orders(marked) :
                    LET s == Sweep(refilled, order) IN
                    /\ resource_buckets' = s.buckets
                    /\ result' = Response("cleanup", 0,
                                          IF s.raised THEN "KeyError" ELSE "done",
                                          NoId, NoId, FALSE, marked)
    /\ UNCHANGED clock

\* time passes
Tick(max) ==
    /\ \E t \in (clock + 1) .. max : clock' = t
    /\ UNCHANGED <<resource_buckets, result>>

\* the system clock is set back
ClockRegress ==
    /\ \E t \in 0 .. (clock - 1) : clock' = t
    /\ UNCHANGED <<resource_buckets, result>>

---------------------------------------------------------------------------
(* Spec: every pair of identifiers, MaxOps handler runs, no history *)

Post ==
    /\ nops < MaxOps
    /\ nops' = nops + 1
    /\ before' = [buckets |-> resource_buckets, now |-> clock]
    /\ \E event \in Events : HandleEvent(event)
    /\ UNCHANGED ghosts

PeriodicCallback ==
    /\ nops < MaxOps
    /\ nops' = nops + 1
    /\ before' = [buckets |-> resource_buckets, now |-> clock]
    /\ Cleanup
    /\ UNCHANGED ghosts

TimePasses ==
    /\ Tick(MaxTime)
    /\ UNCHANGED <<nops, before, ghosts>>

ClockSetBack ==
    /\ ClockRegress
    /\ UNCHANGED <<nops, before, ghosts>>

Next == Post \/ PeriodicCallback \/ TimePasses \/ ClockSetBack

Spec == Init /\ [][Next]_vars

---------------------------------------------------------------------------
(* SpecKey: one pair of identifiers, any number of handler runs, a clock    *)
(* that only advances, followed by the shadow Throttler that is never       *)
(* cleaned up                                                               *)

PostKey ==
    /\ \E event \in KeyEvents : HandleEvent(event) /\ ShadowAfterEvent(event)
    /\ UNCHANGED <<nops, before, first_burst, recovery, loop>>

PeriodicCallbackKey ==
    /\ Cleanup
    /\ hist' = [hist EXCEPT
                   !.evicted = @ \/ result'.marked # {},
                   !.cleaned = @ \/ (result'.reason = "done" /\ result'.marked = {})]
    /\ UNCHANGED <<nops, before, shadow, shadow_allow, first_burst, recovery, loop>>

TimePassesKey ==
    /\ Tick(MaxKeyTime)
    /\ UNCHANGED <<nops, before, ghosts>>

NextKey == PostKey \/ PeriodicCallbackKey \/ TimePassesKey

SpecKey == Init /\ [][NextKey]_vars

---------------------------------------------------------------------------
(* SpecBurst: one pair of identifiers, any number of handler runs, with the *)
(* counts of immediate requests                                             *)

PostBurst ==
    /\ before' = [buckets |-> resource_buckets, now |-> clock]
    /\ \E event \in KeyEvents : HandleEvent(event) /\ BurstsAfterEvent(event)
    /\ UNCHANGED <<nops, shadow, shadow_allow, hist, loop>>

PeriodicCallbackBurst ==
    /\ before' = [buckets |-> resource_buckets, now |-> clock]
    /\ Cleanup
    /\ recovery' = RecoveryAfterCleanup(result'.marked)
    /\ UNCHANGED <<nops, shadow, shadow_allow, hist, first_burst, loop>>

TimePassesBurst ==
    /\ Tick(MaxKeyTime)
    /\ first_burst' = IF first_burst.phase = "burst" THEN NoBurst("over")
                      ELSE first_burst
    /\ recovery' = RecoveryAfterTick
    /\ UNCHANGED <<nops, before, shadow, shadow_allow, hist, loop>>

ClockSetBackBurst ==
    /\ ClockRegress
    /\ first_burst' = IF first_burst.phase = "burst" THEN NoBurst("over")
                      ELSE first_burst
    /\ recovery' = NoBurst("none")
    /\ UNCHANGED <<nops, before, shadow, shadow_allow, hist, loop>>

NextBurst ==
    PostBurst \/ PeriodicCallbackBurst \/ TimePassesBurst \/ ClockSetBackBurst

SpecBurst == Init /\ [][NextBurst]_vars

---------------------------------------------------------------------------
(* SpecLoop: the handler runs step by step, as the IOLoop schedules them.   *)
(* post and cleanup are plain functions that never yield, and the IOLoop    *)
(* runs its callbacks one after the other on one thread: a handler run      *)
(* begins only when no other is in progress.  Time passes between steps;    *)
(* handle_event reads the clock once, cleanup once per item.                *)

\* the events posted under SpecLoop: the pairs of one first-level key
LoopThrottleParams == {TP(IntV(1), IntV(2), IntV(0)), TP(IntV(2), IntV(3), Absent)}
LoopEvents ==
    {Event("a", s, tp) : s \in Ids, tp \in LoopThrottleParams} \cup
    {Event(NoId, "a", Defaults)}

\* mutant of LoopIdle: every handler run gets a thread of its own
LoopIdle_Threaded == TRUE

\* the IOLoop is between two callbacks
LoopIdle ==
    /\ \A h \in Handlers : loop.post[h].pc = "idle"
    /\ loop.cleanup_pc = "idle"

PutItem(buckets, k, item) == DictSet(buckets, k[1], DictSet(buckets[k[1]], k[2], item))

\* post begins: handle_event up to and including _get_item
PostBegin(h) ==
    /\ LoopIdle
    /\ loop.post[h].pc = "idle"
    /\ \E event \in LoopEvents :
           LET err == ValidateRequest(event) IN
           IF err # NoError
           THEN /\ result' = Response("handle_event", 400, err, NoId, NoId,
                                      FALSE, NoKeys)
                /\ UNCHANGED <<resource_buckets, loop>>
           ELSE /\ resource_buckets' =
                       GetItem(resource_buckets, event.requester_id,
                               event.resource_id, clock,
                               EvaluatedParams(event.throttle_params))
                /\ loop' = [loop EXCEPT !.post[h] =
                               [pc |-> "update", event |-> event, now |-> clock]]
                /\ UNCHANGED result
    /\ UNCHANGED <<clock, nops, before, shadow, shadow_allow, hist, first_burst,
                   recovery>>

\* _consume_token: the call of _update_item
PostUpdate(h) ==
    LET run == loop.post[h]
        k == PairKey(run.event.requester_id, run.event.resource_id)
        p == EvaluatedParams(run.event.throttle_params)
    IN  /\ run.pc = "update"
        /\ resource_buckets' =
               IF HasKey(resource_buckets, k)
               THEN PutItem(resource_buckets, k,
                            UpdateItem(Item(resource_buckets, k), run.now, p))
               ELSE resource_buckets
        /\ loop' = [loop EXCEPT !.post[h].pc = "consume"]
        /\ UNCHANGED <<clock, result, nops, before, shadow, shadow_allow, hist,
                       first_burst, recovery>>

\* _consume_token: the test of new_val, and the response of handle_event
PostConsume(h) ==
    LET run == loop.post[h]
        k == PairKey(run.event.requester_id, run.event.resource_id)
        present == HasKey(resource_buckets, k)
        new_val == IF present THEN Item(resource_buckets, k).num_tokens - 1 ELSE -1
        has_capacity == ~(new_val < 0)
    IN  /\ run.pc = "consume"
        /\ resource_buckets' =
               IF has_capacity
               THEN PutItem(resource_buckets, k,
                            [Item(resource_buckets, k) EXCEPT !.num_tokens = new_val])
               ELSE resource_buckets
        /\ result' = Response("handle_event", 200, NoError, run.event.requester_id,
                              run.event.resource_id, has_capacity, NoKeys)
        /\ loop' = [loop EXCEPT
                       !.post[h] = IdlePost,
                       !.touched = IF has_capacity /\ k \in loop.marked
                                   THEN @ \cup {k} ELSE @]
        /\ UNCHANGED <<clock, nops, before, shadow, shadow_allow, hist,
                       first_burst, recovery>>

\* the cleanup fields of loop once the pass is over
CleanupOver ==
    [loop EXCEPT !.cleanup_pc = "idle", !.todo = {}, !.marked = {},
                 !.unswept = {}, !.keys_at_mark = {}, !.touched = {}]

\* cleanup begins: the fast path, or the start of MARK
CleanupBegin ==
    /\ LoopIdle
    /\ loop.cleanup_pc = "idle"
    /\ IF DOMAIN resource_buckets = {}
       THEN /\ result' = Response("cleanup", 0, "skip", NoId, NoId, FALSE, NoKeys)
            /\ UNCHANGED loop
       ELSE /\ loop' = [loop EXCEPT !.cleanup_pc = "mark",
                                    !.todo = KeysOf(resource_buckets),
                                    !.keys_at_mark = KeysOf(resource_buckets)]
            /\ UNCHANGED result
    /\ UNCHANGED <<resource_buckets, clock, nops, before, shadow, shadow_allow,
                   hist, first_burst, recovery>>

\* cleanup, MARK: one item of the iteration; a dict that changed while it is
\* iterated raises RuntimeError
CleanupMark ==
    /\ loop.cleanup_pc = "mark"
    /\ IF KeysOf(resource_buckets) # loop.keys_at_mark
       THEN /\ result' = Response("cleanup", 0, "RuntimeError", NoId, NoId, FALSE,
                                  loop.marked)
            /\ loop' = CleanupOver
            /\ UNCHANGED resource_buckets
       ELSE \E k \in loop.todo :
                LET item == UpdateItem(Item(resource_buckets, k), clock,
                                       Item(resource_buckets, k).last_params)
                    marked == IF item.num_tokens >= item.last_params.bucket_max
                              THEN loop.marked \cup {k} ELSE loop.marked
                    last == loop.todo = {k}
                IN  /\ resource_buckets' = PutItem(resource_buckets, k, item)
                    /\ loop' = [loop EXCEPT
                                   !.todo = @ \ {k},
                                   !.marked = marked,
                                   !.cleanup_pc = IF last THEN "sweep" ELSE "mark",
                                   !.unswept = IF last THEN marked ELSE {}]
                    /\ UNCHANGED result
    /\ UNCHANGED <<clock, nops, before, shadow, shadow_allow, hist, first_burst,
                   recovery>>

\* cleanup, SWEEP: one marked key, or the end of the pass
CleanupSweep ==
    /\ loop.cleanup_pc = "sweep"
    /\ IF loop.unswept = {}
       THEN /\ result' = Response("cleanup", 0, "done", NoId, NoId, FALSE,
                                  loop.marked)
            /\ loop' = CleanupOver
            /\ UNCHANGED resource_buckets
       ELSE \E k \in loop.unswept :
                LET s == Sweep(resource_buckets, <<k>>) IN
                IF s.raised
                THEN /\ result' = Response("cleanup", 0, "KeyError", NoId, NoId,
                                           FALSE, loop.marked)
                     /\ loop' = CleanupOver
                     /\ UNCHANGED resource_buckets
                ELSE /\ resource_buckets' = s.buckets
                     /\ loop' = [loop EXCEPT
                                    !.unswept = @ \ {k},
                                    !.lost = @ \/ (k \in loop.touched
                                                     /\ HasKey(resource_buckets, k))]
                     /\ UNCHANGED result
    /\ UNCHANGED <<clock, nops, before, shadow, shadow_allow, hist, first_burst,
                   recovery>>

TimePassesLoop ==
    /\ Tick(MaxKeyTime)
    /\ UNCHANGED <<nops, before, ghosts>>

NextLoop ==
    \/ \E h \in Handlers : PostBegin(h)
    \/ \E h \in Handlers : PostUpdate(h)
    \/ \E h \in Handlers : PostConsume(h)
    \/ CleanupBegin
    \/ CleanupMark
    \/ CleanupSweep
    \/ TimePassesLoop

SpecLoop == Init /\ [][NextLoop]_vars

---------------------------------------------------------------------------
(* SpecIdle: two pairs, any number of handler runs, a clock that keeps      *)
(* advancing and a periodic callback that keeps being run.  The code uses   *)
(* the clock only as now - last_access and stores only now, so once the     *)
(* clock reads MaxKeyTime a further second is the same second with the      *)
(* origin of the time axis moved: every last_access one lower.              *)

IdleThrottleParams ==
    {TP(IntV(1), IntV(2), IntV(0)),
     TP(IntV(0), IntV(1), IntV(2)),
     TP(IntV(2), IntV(3), Absent),
     TP(Absent, IntV(-1), Absent)}
IdleEvents == {Event("a", s, tp) : s \in Ids, tp \in IdleThrottleParams}

\* the store read on a time axis whose origin is one second later
Rebased(buckets) ==
    [k1 \in DOMAIN buckets |->
        [k2 \in DOMAIN buckets[k1] |->
            [buckets[k1][k2] EXCEPT !.last_access = @ - 1]]]

PostIdle ==
    /\ \E event \in IdleEvents : HandleEvent(event)
    /\ UNCHANGED <<nops, before, ghosts>>

PeriodicCallbackIdle ==
    /\ Cleanup
    /\ UNCHANGED <<nops, before, ghosts>>

\* one second passes
TimePassesIdle ==
    /\ IF clock < MaxKeyTime
       THEN /\ clock' = clock + 1
            /\ UNCHANGED resource_buckets
       ELSE /\ \A k \in KeysOf(resource_buckets) :
                   Item(resource_buckets, k).last_access > 0
            /\ resource_buckets' = Rebased(resource_buckets)
            /\ UNCHANGED clock
    /\ UNCHANGED <<result, nops, before, ghosts>>

NextIdle == PostIdle \/ PeriodicCallbackIdle \/ TimePassesIdle

\* the clock keeps advancing and the PeriodicCallback keeps running cleanup
SpecIdle ==
    /\ Init
    /\ [][NextIdle]_vars
    /\ WF_vars(TimePassesIdle)
    /\ WF_vars(PeriodicCallbackIdle)

---------------------------------------------------------------------------
(* SpecRate: one pair of identifiers, any number of handler runs, a clock    *)
(* that only advances, with the count of the requests allowed at each clock  *)
(* value                                                                     *)

PostRate ==
    /\ before' = [buckets |-> resource_buckets, now |-> clock]
    /\ \E event \in KeyEvents : HandleEvent(event) /\ RateAfterEvent(event)
    /\ UNCHANGED <<nops, shadow, shadow_allow, first_burst, recovery, loop>>

PeriodicCallbackRate ==
    /\ before' = [buckets |-> resource_buckets, now |-> clock]
    /\ Cleanup
    /\ UNCHANGED <<nops, ghosts>>

TimePassesRate ==
    /\ Tick(MaxKeyTime)
    /\ UNCHANGED <<nops, before, ghosts>>

NextRate == PostRate \/ PeriodicCallbackRate \/ TimePassesRate

SpecRate == Init /\ [][NextRate]_vars

---------------------------------------------------------------------------
(* Properties *)

Pairs == Ids \X Ids

\* C1: every entry in the store satisfies 0 <= num_tokens <= last_params.bucket_max
\* after each refill, consume and cleanup step.
C1_CapacityInvariant ==
    \A k \in KeysOf(resource_buckets) :
        /\ 0 <= Item(resource_buckets, k).num_tokens
        /\ Item(resource_buckets, k).num_tokens
               <= Item(resource_buckets, k).last_params.bucket_max

\* C3 as stated: no admission request or cleanup pass, whatever its current
\* time, lowers the last_access of an entry.
C3_LastAccessNeverLowered ==
    [][\A k \in KeysOf(resource_buckets) \cap KeysOf(resource_buckets') :
          Item(resource_buckets', k).last_access
              >= Item(resource_buckets, k).last_access]_vars

\* C3 as amended: a handler run whose current time is not earlier than an
\* entry's last_access does not lower it; a handler run that refills an entry
\* at a current time earlier than its last_access sets last_access back to
\* that current time; an entry the run does not refill keeps its last_access.
C3_LastAccessFollowsClock ==
    [][nops' # nops =>
        \A k \in KeysOf(resource_buckets) \cap KeysOf(resource_buckets') :
            LET old == Item(resource_buckets, k).last_access
                new == Item(resource_buckets', k).last_access
                refilled ==
                    \/ result'.op = "cleanup"
                    \/ /\ result'.op = "handle_event"
                       /\ result'.status = 200
                       /\ k = PairKey(result'.requester_id, result'.resource_id)
            IN  /\ clock >= old => new >= old
                /\ refilled /\ clock < old => new = clock
                /\ ~refilled => new = old]_vars

\* C3, witness: a handler run at a current time earlier than the last_access
\* of an entry has refilled that entry and has kept it in the store.
C3_Witness ==
    \E k \in KeysOf(before.buckets) \cap KeysOf(resource_buckets) :
        /\ nops > 0
        /\ before.now < Item(before.buckets, k).last_access
        /\ Item(resource_buckets, k).last_access = before.now

\* the refill of an entry at time `now` with the entry's own last_params
RefillOwn(item, now) ==
    [last_access |-> now,
     num_tokens |->
        Min(item.last_params.bucket_max,
            item.num_tokens
                + Max(0, item.last_params.fill_rate * (now - item.last_access))),
     last_params |-> item.last_params]

\* C4: a cleanup pass removes exactly the entries whose num_tokens, refilled to
\* the current time with the entry's own last_params, is >= last_params.bucket_max;
\* every other entry stays, with the num_tokens and last_access of that refill
\* and its last_params unchanged.
C4_EvictionCorrectness ==
    result.op = "cleanup" =>
        /\ KeysOf(resource_buckets) =
               {k \in KeysOf(before.buckets) :
                   RefillOwn(Item(before.buckets, k), before.now).num_tokens
                       < Item(before.buckets, k).last_params.bucket_max}
        /\ \A k \in KeysOf(resource_buckets) :
               Item(resource_buckets, k)
                   = RefillOwn(Item(before.buckets, k), before.now)

\* C4, witness: a cleanup pass has removed one entry and kept another, whose
\* num_tokens the refill has raised.
C4_Witness ==
    /\ result.op = "cleanup"
    /\ KeysOf(before.buckets) \ KeysOf(resource_buckets) # {}
    /\ \E k \in KeysOf(resource_buckets) :
           Item(resource_buckets, k).num_tokens > Item(before.buckets, k).num_tokens

\* what the documentation calls a validation failure
FailsValidation(event) ==
    \/ event.requester_id = NoId
    \/ event.resource_id = NoId
    \/ \E f \in {"fill_rate", "bucket_max", "bucket_start"} :
           event.throttle_params[f].kind = "str"

\* the posted events that fail validation
InvalidEvents == {event \in Events : FailsValidation(event)}

HasNegativeField(event) ==
    \E f \in {"fill_rate", "bucket_max", "bucket_start"} :
        event.throttle_params[f].kind = "int" /\ event.throttle_params[f].val < 0

\* C6: a request that supplies a negative throttle_params field is rejected
\* with a validation error and creates or updates no entry.
C6_NegativeParamsRejected ==
    [][\A event \in Events :
          HasNegativeField(event) /\ HandleEvent(event) =>
              /\ result'.status = 400
              /\ resource_buckets' = resource_buckets]_vars

\* C9: an admission request for the pair (requester r, resource s) leaves the
\* entry of every other pair as it was: absent if it was absent, and with the
\* same num_tokens, last_access and last_params if it was present.
C9_OtherPairsUnchanged ==
    result.op = "handle_event" /\ result.status = 200 =>
        \A pair \in Pairs \ {<<result.requester_id, result.resource_id>>} :
            LET k == PairKey(pair[1], pair[2]) IN
            /\ HasKey(resource_buckets, k) <=> HasKey(before.buckets, k)
            /\ HasKey(resource_buckets, k) =>
                   Item(resource_buckets, k) = Item(before.buckets, k)

\* C9, witness: a request for (requester "a", resource "b") has changed the
\* store while the pairs ("a", "a") and ("b", "a") hold entries.
C9_Witness ==
    /\ result.op = "handle_event"
    /\ result.status = 200
    /\ result.requester_id = "a"
    /\ result.resource_id = "b"
    /\ before.buckets # resource_buckets
    /\ HasKey(before.buckets, PairKey("a", "a"))
    /\ HasKey(before.buckets, PairKey("b", "a"))

\* C10: a refill that runs at a current time earlier than the entry's
\* last_access adds no tokens, and raises no error.
C10_NoTokensOnClockAnomaly ==
    nops > 0 =>
        /\ result.reason # "KeyError"
        /\ \A k \in KeysOf(before.buckets) \cap KeysOf(resource_buckets) :
               before.now < Item(before.buckets, k).last_access =>
                   Item(resource_buckets, k).num_tokens
                       <= Item(before.buckets, k).num_tokens

\* C2 as stated, for requests whose throttle_params are not negative and a
\* clock that only advances: the decision of every admission request equals
\* the decision the same request gets from a Throttler that was given the
\* same events and never cleaned up.
C2_EvictionUnobservable ==
    result.op = "handle_event" /\ result.status = 200 /\ ~hist.negative =>
        result.allow = shadow_allow

\* C2 as amended: with a clock that only advances, when every request so far
\* carried the same throttle_params as the previous request for its pair, with
\* bucket_start >= bucket_max, the decision of every admission request equals
\* the decision of the Throttler that is never cleaned up.
C2_EvictionUnobservableUniform ==
    result.op = "handle_event" /\ result.status = 200
        /\ ~hist.varied /\ ~hist.low_start =>
            result.allow = shadow_allow

\* C2, witness: after a cleanup pass evicted the entry, a request with the
\* same throttle_params as all requests before it is allowed.
C2_Witness ==
    /\ result.op = "handle_event"
    /\ result.status = 200
    /\ ~hist.varied /\ ~hist.low_start
    /\ hist.evicted
    /\ HasKey(shadow, TrackedKey)
    /\ HasKey(resource_buckets, TrackedKey)
    /\ result.allow

NonNegative(p) == p.fill_rate >= 0 /\ p.bucket_max >= 0 /\ p.bucket_start >= 0

\* C7 as stated, for throttle_params that are not negative: of the n immediate
\* requests that a never-seen pair has made so far, the first bucket_start are
\* allowed and all others denied.
C7_FirstBucketStartAllowed ==
    first_burst.phase = "burst" /\ NonNegative(first_burst.params) =>
        first_burst.allowed = Min(first_burst.n, first_burst.params.bucket_start)

\* C7 as amended: of the n immediate requests with the same throttle_params
\* that a never-seen pair has made so far, the first
\* max(0, min(bucket_start, bucket_max)) are allowed and all others denied.
C7_FirstCappedStartAllowed ==
    first_burst.phase = "burst" =>
        first_burst.allowed =
            Min(first_burst.n,
                Max(0, Min(first_burst.params.bucket_start,
                           first_burst.params.bucket_max)))

\* C7, witness: with the defaults a never-seen pair has made 11 immediate
\* requests, 10 of them allowed.
C7_Witness ==
    /\ first_burst.phase = "burst"
    /\ first_burst.params = EvaluatedParams(Defaults)
    /\ first_burst.n = TOKEN_BUCKET_START + 1
    /\ first_burst.allowed = TOKEN_BUCKET_START
    /\ ~result.allow

\* C8 as stated, for throttle_params that are not negative: k seconds after a
\* request left the bucket with no tokens, of the n immediate requests made so
\* far the first min(bucket_max, fill_rate * k) are allowed and all others
\* denied, whether or not cleanup passes ran in between.
C8_RefillRecovery ==
    recovery.phase = "burst" /\ NonNegative(recovery.params) =>
        recovery.allowed =
            Min(recovery.n,
                Min(recovery.params.bucket_max,
                    recovery.params.fill_rate * (recovery.t - recovery.t0)))

\* C8 as amended: the same for throttle_params with bucket_start >= bucket_max,
\* the tokens restored being min(bucket_max, max(0, fill_rate * k)).
C8_RefillRecoveryFullStart ==
    recovery.phase = "burst"
        /\ recovery.params.bucket_start >= recovery.params.bucket_max =>
            recovery.allowed =
                Min(recovery.n,
                    Min(recovery.params.bucket_max,
                        Max(0, recovery.params.fill_rate
                                   * (recovery.t - recovery.t0))))

\* C8, witness: with the defaults, one second after the bucket ran dry and a
\* cleanup pass later, of two immediate requests the first was allowed and the
\* second denied.
C8_Witness ==
    /\ recovery.phase = "burst"
    /\ recovery.params = EvaluatedParams(Defaults)
    /\ recovery.t - recovery.t0 = 1
    /\ recovery.cleaned
    /\ recovery.n = 2
    /\ recovery.allowed = 1
    /\ ~result.allow

\* the posted events of SpecBurst that pass validation
ValidKeyEvents == {event \in KeyEvents : ValidateRequest(event) = NoError}

\* the entry an admission request with params p finds, or creates, for key k
EntryFound(k, p) ==
    IF HasKey(resource_buckets, k)
    THEN Item(resource_buckets, k)
    ELSE [last_access |-> clock, num_tokens |-> p.bucket_start, last_params |-> p]

\* num_tokens of an entry after the refill step at the current time with params p
Refilled(entry, p) ==
    Min(p.bucket_max,
        entry.num_tokens + Max(0, p.fill_rate * (clock - entry.last_access)))

\* C11: with n the num_tokens of the entry after the refill step, an admission
\* request is allowed if and only if n - 1 >= 0; when allowed num_tokens becomes
\* n - 1, when denied it stays n; allowed or denied, last_access becomes the
\* current time and last_params the request's params.
C11_ConsumeCost ==
    [][\A event \in ValidKeyEvents :
          HandleEvent(event) =>
              LET p == EvaluatedParams(event.throttle_params)
                  k == PairKey(event.requester_id, event.resource_id)
                  n == Refilled(EntryFound(k, p), p)
                  new == Item(resource_buckets', k)
              IN  /\ result'.allow <=> n - 1 >= 0
                  /\ new.num_tokens = IF n - 1 >= 0 THEN n - 1 ELSE n
                  /\ n - 1 <= new.num_tokens /\ new.num_tokens <= n
                  /\ new.last_access = clock
                  /\ new.last_params = p]_vars

\* C11, witness: a request was denied on an entry that existed, and the entry's
\* last_access and last_params are not what they were before the request.
C11_Witness ==
    /\ result.op = "handle_event"
    /\ result.status = 200
    /\ ~result.allow
    /\ HasKey(before.buckets, TrackedKey)
    /\ Item(resource_buckets, TrackedKey).last_access
           > Item(before.buckets, TrackedKey).last_access
    /\ Item(resource_buckets, TrackedKey).last_params
           # Item(before.buckets, TrackedKey).last_params

\* C12: a cleanup pass, from every store that admission requests and cleanup
\* passes can produce, completes without raising an error, and on a store with
\* zero entries it changes nothing.
C12_CleanupTotal ==
    result.op = "cleanup" =>
        /\ result.reason # "KeyError"
        /\ KeysOf(before.buckets) = {} =>
               /\ result.reason = "skip"
               /\ resource_buckets = before.buckets

\* C12, witness: a cleanup pass has swept two entries of one group, and the
\* group with them.
C12_Witness ==
    /\ result.op = "cleanup"
    /\ result.reason = "done"
    /\ \E k1, k2 \in result.marked : k1 # k2 /\ k1[1] = k2[1]
    /\ resource_buckets = EmptyDict

\* the handler runs in progress
InProgress ==
    Cardinality({h \in Handlers : loop.post[h].pc # "idle"})
        + Count(loop.cleanup_pc # "idle")

\* C13: under the IOLoop's scheduling at most one handler run is in progress,
\* so no admission request runs between the mark and the sweep of a cleanup
\* pass and no two refill+consume sequences interleave; cleanup never removes
\* an entry from which a token was consumed after it was marked, and the keys
\* of the store do not change during the mark phase.
C13_Serialized ==
    /\ InProgress <= 1
    /\ loop.touched = {} /\ ~loop.lost
    /\ loop.cleanup_pc = "mark" => KeysOf(resource_buckets) = loop.keys_at_mark
    /\ result.reason \notin {"KeyError", "RuntimeError"}

\* C13, witness: a cleanup pass that marked two entries is half-way through
\* its sweep, after an admission request was allowed.
C13_Witness ==
    /\ loop.cleanup_pc = "sweep"
    /\ Cardinality(loop.marked) = 2
    /\ Cardinality(loop.unswept) = 1
    /\ result.op = "handle_event"
    /\ result.allow

\* the latest handler run was an admission request for the pair of key k
Requested(k) ==
    /\ result.op = "handle_event"
    /\ result.status = 200
    /\ PairKey(result.requester_id, result.resource_id) = k

IdleKeys == {PairKey(event.requester_id, event.resource_id) : event \in IdleEvents}

\* C14 as stated, for throttle_params that are not negative: while the clock
\* keeps advancing and cleanup keeps being run, every entry is eventually
\* removed from the store unless a further admission request arrives for its
\* key.
C14_IdleReclaimed ==
    \A k \in IdleKeys :
        (/\ HasKey(resource_buckets, k)
         /\ NonNegative(Item(resource_buckets, k).last_params))
            ~> (~HasKey(resource_buckets, k) \/ Requested(k))

\* C14 as amended: the same for every entry whose last_params have
\* fill_rate >= 1.
C14_IdleReclaimedPositiveRate ==
    \A k \in IdleKeys :
        (/\ HasKey(resource_buckets, k)
         /\ Item(resource_buckets, k).last_params.fill_rate >= 1)
            ~> (~HasKey(resource_buckets, k) \/ Requested(k))

\* C14, witness: a cleanup pass has removed the entry of one pair, which it
\* had left in place at the time of that entry's last request, and has kept
\* the entry of another pair whose fill_rate is 0.
C14_Witness ==
    /\ result.op = "cleanup"
    /\ TrackedKey \in result.marked
    /\ ~HasKey(resource_buckets, TrackedKey)
    /\ \E k \in KeysOf(resource_buckets) :
           /\ Item(resource_buckets, k).last_params.fill_rate = 0
           /\ Item(resource_buckets, k).num_tokens = 0

\* the requests for TrackedKey allowed at the clock values t0 .. t1
RECURSIVE AllowedIn(_, _)
AllowedIn(t0, t1) ==
    IF t0 > t1 THEN 0 ELSE hist.allowed[t1] + AllowedIn(t0, t1 - 1)

\* C15: when all requests for a pair carry the same params, with fill_rate
\* f >= 0 and bucket_max B, and the clock never goes back, the number of
\* requests allowed with timestamps in [t0, t1] is at most B + f * (t1 - t0),
\* whatever cleanup passes ran in between.
C15_RateBound ==
    hist.seen /\ hist.same /\ hist.params.fill_rate >= 0 =>
        \A t0, t1 \in 0 .. MaxKeyTime :
            t0 <= t1 =>
                AllowedIn(t0, t1)
                    <= hist.params.bucket_max + hist.params.fill_rate * (t1 - t0)

\* the params of KeyEvents with a fill_rate that is not negative
RefillParams ==
    {p \in {EvaluatedParams(tp) : tp \in KeyThrottleParams} : p.fill_rate >= 0}

\* C16: for params with fill_rate >= 0 and times t0 <= t1 <= t2, t0 the
\* last_access of the entry: refilling an entry twice at t1 gives the entry
\* that refilling it once gives, and refilling it at t1 and then at t2 gives
\* the num_tokens and last_access of refilling it once at t2; and while the
\* cleanup passes evict nothing, every request of a pair whose requests all
\* carry the same params gets the decision it gets with no cleanup pass at all.
C16_RefillComposes ==
    /\ \A k \in KeysOf(resource_buckets), p \in RefillParams :
           \A t1, t2 \in Item(resource_buckets, k).last_access .. MaxKeyTime :
               LET item == Item(resource_buckets, k)
                   once == UpdateItem(item, t1, p)
                   twice == UpdateItem(once, t1, p)
                   direct == UpdateItem(item, t2, p)
                   composed == UpdateItem(once, t2, p)
               IN  /\ twice = once
                   /\ t1 <= t2 =>
                          /\ composed.num_tokens = direct.num_tokens
                          /\ composed.last_access = direct.last_access
    /\ (/\ result.op = "handle_event" /\ result.status = 200
        /\ ~hist.varied /\ ~hist.evicted
        /\ Item(resource_buckets, TrackedKey).last_params.fill_rate >= 0)
           => result.allow = shadow_allow

\* C16, witness: after a cleanup pass that refilled the entry and left it in
\* the store, a later request with the same params was allowed on tokens that
\* only the refill can have given.
C16_Witness ==
    /\ result.op = "handle_event"
    /\ result.status = 200
    /\ result.allow
    /\ hist.cleaned /\ ~hist.evicted /\ ~hist.varied
    /\ Item(resource_buckets, TrackedKey).last_params
           = EvaluatedParams(TP(IntV(1), IntV(2), IntV(0)))
    /\ Item(resource_buckets, TrackedKey).last_access = MaxKeyTime
    /\ Item(resource_buckets, TrackedKey).num_tokens = 1

\* C17: after an admission request for requester r and resource s, the entry
\* of the pair is stored under the first-level key s and the second-level
\* key r.
C17_ResourceFirstLayout ==
    result.op = "handle_event" /\ result.status = 200 =>
        /\ result.resource_id \in DOMAIN resource_buckets
        /\ result.requester_id \in DOMAIN resource_buckets[result.resource_id]

\* C18: an admission request for a key with no entry creates one with
\* num_tokens = bucket_start, last_access = now and last_params = the request's
\* params before refill and consume run; a request for a key that has an
\* entry leaves it to refill and consume as it is: num_tokens is the entry's,
\* refilled and capped with the request's fill_rate and bucket_max, less the
\* token consumed, whatever the request's bucket_start, and last_params
\* becomes the request's params.
C18_LookupOrCreate ==
    [][\A event \in ValidKeyEvents :
          HandleEvent(event) =>
              LET p == EvaluatedParams(event.throttle_params)
                  k == PairKey(event.requester_id, event.resource_id)
                  got == GetItem(resource_buckets, k[1], k[2], clock, p)
                  new == Item(resource_buckets', k)
              IN  /\ new.last_params = p
                  /\ IF HasKey(resource_buckets, k)
                     THEN LET old == Item(resource_buckets, k)
                              n == Min(p.bucket_max,
                                       old.num_tokens
                                           + Max(0, p.fill_rate
                                                        * (clock - old.last_access)))
                          IN  /\ got = resource_buckets
                              /\ new.num_tokens = IF n - 1 < 0 THEN n ELSE n - 1
                     ELSE /\ Item(got, k) = [last_access |-> clock,
                                             num_tokens |-> p.bucket_start,
                                             last_params |-> p]
                          /\ KeysOf(got) = KeysOf(resource_buckets) \cup {k}]_vars

\* C18, witness: a request with bucket_start 10 for a key whose entry had no
\* tokens was denied at the time of the entry's last_access, and the entry has
\* the request's params.
C18_Witness ==
    /\ result.op = "handle_event"
    /\ result.status = 200
    /\ ~result.allow
    /\ HasKey(before.buckets, TrackedKey)
    /\ Item(before.buckets, TrackedKey).num_tokens = 0
    /\ Item(before.buckets, TrackedKey).last_access = before.now
    /\ Item(resource_buckets, TrackedKey).last_params
           = EvaluatedParams(TP(IntV(2), IntV(3), Absent))
    /\ Item(before.buckets, TrackedKey).last_params
           = EvaluatedParams(TP(IntV(1), IntV(2), IntV(0)))

\* C19 as stated, for throttle_params that are not negative: whenever cleanup
\* evicts an entry, the time elapsed since the last admission request for its
\* key, multiplied by last_params.fill_rate, is at least last_params.bucket_max.
C19_MinimumIdleTime ==
    result.op = "cleanup" /\ TrackedKey \in result.marked
        /\ NonNegative(Item(before.buckets, TrackedKey).last_params) =>
            (before.now - hist.req_at)
                    * Item(before.buckets, TrackedKey).last_params.fill_rate
                >= Item(before.buckets, TrackedKey).last_params.bucket_max

\* C19 as amended: with a clock that only advances, whenever cleanup evicts
\* an entry, the num_tokens the last admission request for its key left, plus
\* the time elapsed since that request multiplied by last_params.fill_rate
\* (plus nothing if that product is negative), is at least
\* last_params.bucket_max.
C19_IdleRefillsDrawnTokens ==
    result.op = "cleanup" /\ TrackedKey \in result.marked =>
        hist.req_left
                + Max(0, (before.now - hist.req_at)
                             * Item(before.buckets, TrackedKey).last_params.fill_rate)
            >= Item(before.buckets, TrackedKey).last_params.bucket_max

\* C19, witness: a cleanup pass has evicted an entry two seconds after the
\* request that left it without tokens, one second after an earlier cleanup
\* pass refilled it.
C19_Witness ==
    /\ result.op = "cleanup"
    /\ TrackedKey \in result.marked
    /\ hist.req_left = 0
    /\ before.now - hist.req_at = 2
    /\ Item(before.buckets, TrackedKey).last_access = hist.req_at + 1
    /\ Item(before.buckets, TrackedKey).last_params
           = EvaluatedParams(TP(IntV(1), IntV(2), IntV(0)))

\* the first-level keys under which a store holds at least one entry
GroupsOf(buckets) == {k[1] : k \in KeysOf(buckets)}

\* C20: after every completed admission request and every completed cleanup
\* pass, every first-level key of the store maps to a non-empty second-level
\* map: a request adds no group but the one of the entry it creates, and a
\* cleanup pass removes a group in the sweep that removes its last entry.
C20_NoEmptyGroups ==
    /\ \A k1 \in DOMAIN resource_buckets : DOMAIN resource_buckets[k1] # {}
    /\ DOMAIN resource_buckets = GroupsOf(resource_buckets)
    /\ result.op = "handle_event" =>
           /\ DOMAIN before.buckets \subseteq DOMAIN resource_buckets
           /\ DOMAIN resource_buckets \ DOMAIN before.buckets
                  \subseteq GroupsOf(resource_buckets) \ GroupsOf(before.buckets)
    /\ result.op = "cleanup" =>
           DOMAIN before.buckets \ DOMAIN resource_buckets
               = {k1 \in DOMAIN before.buckets :
                     \A k2 \in DOMAIN before.buckets[k1] : <<k1, k2>> \in result.marked}

\* C20, witness: a cleanup pass has removed the last entry of one group, and
\* the group with it, and has kept another group.
C20_Witness ==
    /\ result.op = "cleanup"
    /\ DOMAIN before.buckets \ DOMAIN resource_buckets # {}
    /\ DOMAIN resource_buckets # {}

=============================================================================
